---- MODULE Spec2Model ----
(***************************************************************************)
(* The example plugin scripts of custom-pod-autoscaler: metric collectors  *)
(* and evaluators, each a one-shot process that reads a JSON document on   *)
(* stdin and writes a result to stdout or a diagnostic to stderr.          *)
(*                                                                         *)
(* One behaviour of Spec is one invocation of one script on one input.     *)
(* The state is the process as the orchestrator sees it (stdout, stderr,   *)
(* exit status) plus the script's local variables and its position.        *)
(*                                                                         *)
(* Two programs keep state from one run or request to the next and have a  *)
(* specification each: the post-scale hook, which leaves a file behind     *)
(* (SpecHook), and the demo metric server, whose handlers share one global *)
(* (SpecSerial, SpecConcurrent).                                           *)
(***************************************************************************)
EXTENDS Integers, Sequences, FiniteSets, TLC

VARIABLES
    script,                 \* the file being run (a path under src/example)
    stdin,                  \* the text piped into the process
    environ,                \* os.environ and the search service behind it
    pc,                     \* position in the script
    spec,                   \* the parsed document (spec / pod / metrics in the sources)
    idx,                    \* position of the running for-loop
    total_available,        \* evaluators' accumulator
    total_utilization,      \* extraction collectors' accumulator
    target_replica_count,   \* evaluators' result variable
    replicas,               \* ratio evaluator's result variable
    value,                  \* direct-multiplier evaluator's parsed metric value
    average_utilization,    \* extraction collectors' result variable
    response,               \* remote probe: what requests.get returned
    num_up,                 \* search collector: tweets holding a thumbs up
    num_down,               \* search collector: tweets holding a thumbs down
    exc,                    \* the exception being propagated, if any
    stdout,                 \* sequence of strings written to sys.stdout
    stderr,                 \* sequence of diagnostics written to sys.stderr
    exitStatus,             \* -1 while running, then the process's exit status
    file,                   \* post-scale hook: what /post_scale_data.json holds
    runs,                   \* post-scale hook: the invocations that have ended
    global_metric,          \* demo server: the module global of api.py
    handlers,               \* demo server: the request each worker thread is handling
    served                  \* demo server: tally of the requests and the last response

vars == <<script, stdin, environ, pc, spec, idx, total_available, total_utilization,
          target_replica_count, replicas, value, average_utilization, response,
          num_up, num_down, exc, stdout, stderr, exitStatus,
          file, runs, global_metric, handlers, served>>

\* the demo server's state
server == <<global_metric, handlers, served>>

\* what an invocation is given and what lies outside the plugin scripts: no step
\* of theirs changes it
given == <<script, stdin, environ, file, runs, server>>


\* the local variables of the scripts
locals == <<spec, idx, total_available, total_utilization, target_replica_count,
            replicas, value, average_utilization, response, num_up, num_down>>

(***************************************************************************)
(* Bounds of the model.                                                    *)
(***************************************************************************)
MaxMetrics == 2     \* longest metrics list piped to an evaluator
MaxPods == 2        \* most entries of pod_metrics_info
MaxInvocations == 2 \* most invocations of the post-scale hook in a row
MaxThreads == 2     \* worker threads of the demo server
MaxRequests == 6    \* most requests sent to the demo server

(***************************************************************************)
(* Python values.  A JSON document parses to one of these; every value     *)
(* carries its type tag t so that values of different types compare.       *)
(* A str is either a sequence of characters (t = "str") or, when its       *)
(* characters are the JSON encoding of a document that is not an integer,  *)
(* that document and the formatting of the encoding (t = "jsonstr").       *)
(* Characters are drawn from the digits, "+", "-", " " and "a".."c".       *)
(***************************************************************************)
JNull == [t |-> "null"]
JBool(b) == [t |-> "bool", b |-> b]
JInt(n) == [t |-> "int", n |-> n]
\* the double nearest to num/den
JFloat(num, den) == [t |-> "float", num |-> num, den |-> den]
\* a double within rounding of num/den that need not be the nearest one: the
\* result of arithmetic on a double that is not num/den itself
Near(num, den) == [t |-> "float", num |-> num, den |-> den, near |-> TRUE]
JStr(s) == [t |-> "str", s |-> s]
JList(items) == [t |-> "list", items |-> items]
JObj(f) == [t |-> "obj", f |-> f]
\* a dict with the order of its keys, which is the order the document lists
\* them in: what a loop over the dict goes by
JDict(keys, f) == [t |-> "obj", f |-> f, keys |-> keys]
Unbound == [t |-> "unbound"]
Exc(kind) == [t |-> "exc", kind |-> kind]
NoExc == [t |-> "none"]

IsExc(v) == v.t = "exc"
IsStr(v) == v.t \in {"str", "jsonstr"}

Digits == <<"0", "1", "2", "3", "4", "5", "6", "7", "8", "9">>

DigitVal(c) == CHOOSE d \in 0..9 : Digits[d + 1] = c

IsDigit(c) == \E d \in 0..9 : Digits[d + 1] = c

AllDigits(s) == \A i \in 1..Len(s) : IsDigit(s[i])

RECURSIVE ParseDigits(_)
ParseDigits(s) ==
    IF s = <<>> THEN 0
    ELSE ParseDigits(SubSeq(s, 1, Len(s) - 1)) * 10 + DigitVal(s[Len(s)])

RECURSIVE NatToChars(_)
NatToChars(n) ==
    IF n < 10 THEN <<Digits[n + 1]>>
    ELSE NatToChars(n \div 10) \o <<Digits[(n % 10) + 1]>>

\* str(n) / the JSON encoding of an int
IntToChars(n) == IF n < 0 THEN <<"-">> \o NatToChars(0 - n) ELSE NatToChars(n)

RECURSIVE Strip(_)
Strip(s) ==
    IF s = <<>> THEN s
    ELSE IF s[1] = " " THEN Strip(SubSeq(s, 2, Len(s)))
    ELSE IF s[Len(s)] = " " THEN Strip(SubSeq(s, 1, Len(s) - 1))
    ELSE s

\* int(s) for a str of characters: optional sign, then digits, blanks around
IntOfChars(s) ==
    LET b == Strip(s)
        signed == b # <<>> /\ b[1] \in {"+", "-"}
        rest == IF signed THEN SubSeq(b, 2, Len(b)) ELSE b
    IN  IF rest # <<>> /\ AllDigits(rest)
        THEN JInt(IF signed /\ b[1] = "-" THEN 0 - ParseDigits(rest) ELSE ParseDigits(rest))
        ELSE Exc("ValueError")

\* truncation toward zero of num/den, den > 0
Trunc(num, den) == IF num >= 0 THEN num \div den ELSE 0 - ((0 - num) \div den)

\* int(v)
PyInt(v) ==
    CASE IsExc(v) -> v
      [] v.t = "int" -> v
      [] v.t = "bool" -> JInt(IF v.b THEN 1 ELSE 0)
      [] v.t = "float" -> JInt(Trunc(v.num, v.den))
      [] v.t = "str" -> IntOfChars(v.s)
      [] v.t = "jsonstr" -> Exc("ValueError")
      [] OTHER -> Exc("TypeError")

\* json.dumps(v): the encoding of an int is its digits, any other document is
\* kept with the formatting json.dumps gives it
Dumps(v) ==
    IF v.t = "int" THEN JStr(IntToChars(v.n))
    ELSE [t |-> "jsonstr", d |-> v, fmt |-> "dumps"]

\* some text that encodes document d, with formatting fmt
JText(d, fmt) ==
    IF d.t = "int" THEN JStr(IntToChars(d.n))
    ELSE [t |-> "jsonstr", d |-> d, fmt |-> fmt]

\* json.loads(v): over the alphabet above the only JSON documents written in
\* characters are integers: blanks, an optional "-", digits without a leading 0
Loads(v) ==
    CASE IsExc(v) -> v
      [] v.t = "jsonstr" -> v.d
      [] v.t = "str" ->
            LET b == Strip(v.s)
                neg == b # <<>> /\ b[1] = "-"
                rest == IF neg THEN SubSeq(b, 2, Len(b)) ELSE b
            IN  IF rest # <<>> /\ AllDigits(rest) /\ (Len(rest) = 1 \/ rest[1] # "0")
                THEN JInt(IF neg THEN 0 - ParseDigits(rest) ELSE ParseDigits(rest))
                ELSE Exc("ValueError")
      [] OTHER -> Exc("TypeError")

\* v[k] for a str key k
Sub(v, k) ==
    CASE IsExc(v) -> v
      [] v.t = "obj" -> IF k \in DOMAIN v.f THEN v.f[k] ELSE Exc("KeyError")
      [] OTHER -> Exc("TypeError")

\* v[i] for an int index i >= 0 (0-based)
At(v, i) ==
    CASE IsExc(v) -> v
      [] v.t = "list" -> IF i < Len(v.items) THEN v.items[i + 1] ELSE Exc("IndexError")
      [] v.t = "str" -> IF i < Len(v.s) THEN JStr(<<v.s[i + 1]>>) ELSE Exc("IndexError")
      [] v.t = "jsonstr" -> IF i < 2 THEN JStr(<<"a">>) ELSE Exc("IndexError")
      [] v.t = "obj" -> Exc("KeyError")
      [] OTHER -> Exc("TypeError")

\* The elements a for-loop over v visits.  A dict yields its keys, which are
\* strings; the scripts only subscript the loop variable with a str key, so one
\* placeholder str per key stands for them.  The encoding of a document that
\* is not an integer has at least two characters: two stand for them.
Iter(v) ==
    CASE IsExc(v) -> v
      [] v.t = "list" -> JList(v.items)
      [] v.t = "str" -> JList([i \in 1..Len(v.s) |-> JStr(<<v.s[i]>>)])
      [] v.t = "jsonstr" -> JList(<<JStr(<<"a">>), JStr(<<"a">>)>>)
      [] v.t = "obj" -> JList([i \in 1..Cardinality(DOMAIN v.f) |-> JStr(<<"a">>)])
      [] OTHER -> Exc("TypeError")

\* len(v)
PyLen(v) ==
    CASE IsExc(v) -> v
      [] v.t = "list" -> JInt(Len(v.items))
      [] v.t = "str" -> JInt(Len(v.s))
      [] v.t = "jsonstr" -> JInt(2)
      [] v.t = "obj" -> JInt(Cardinality(DOMAIN v.f))
      [] OTHER -> Exc("TypeError")

IsNumber(v) == v.t \in {"int", "bool", "float"}

\* a number as the fraction <<numerator, denominator>>
Num(v) ==
    CASE v.t = "int" -> <<v.n, 1>>
      [] v.t = "bool" -> <<IF v.b THEN 1 ELSE 0, 1>>
      [] v.t = "float" -> <<v.num, v.den>>

RECURSIVE Gcd(_, _)
Gcd(a, b) == IF b = 0 THEN a ELSE Gcd(b, a % b)

Abs(n) == IF n < 0 THEN 0 - n ELSE n

\* the float num/den, den # 0, in lowest terms with a positive denominator
Reduced(num, den) ==
    LET g == Gcd(Abs(num), Abs(den))
        s == IF den < 0 THEN 0 - 1 ELSE 1
    IN  JFloat((s * num) \div g, (s * den) \div g)

RECURSIVE IsPow2(_)
IsPow2(n) == n = 1 \/ (n > 1 /\ n % 2 = 0 /\ IsPow2(n \div 2))

\* the number is its fraction exactly: an int, a bool, or a double whose
\* fraction has a power of two below it (2.5, 0.5; not 0.1, not 1/3)
Exactly(v) ==
    \/ v.t \in {"int", "bool"}
    \/ v.t = "float" /\ "near" \notin DOMAIN v /\ IsPow2(v.den)

\* the double an operation on a and b gives, num/den being what it gives on
\* their fractions: IEEE 754 rounds the exact result of exact operands to the
\* nearest double; with an operand that is itself rounded the result is only
\* near num/den (0.1 + 0.2 is 0.30000000000000004, not the double nearest 3/10)
Rounded(a, b, num, den) ==
    LET r == Reduced(num, den)
    IN  IF Exactly(a) /\ Exactly(b) THEN r ELSE Near(r.num, r.den)

\* a + b
PyAdd(a, b) ==
    CASE IsExc(a) -> a
      [] IsExc(b) -> b
      [] IsNumber(a) /\ IsNumber(b) ->
            IF a.t = "float" \/ b.t = "float"
            THEN Rounded(a, b, Num(a)[1] * Num(b)[2] + Num(b)[1] * Num(a)[2],
                         Num(a)[2] * Num(b)[2])
            ELSE JInt(Num(a)[1] + Num(b)[1])
      [] OTHER -> Exc("TypeError")

\* a / b: true division, always a float; int / int is rounded once, like the
\* division of two exact doubles
PyTrueDiv(a, b) ==
    CASE IsExc(a) -> a
      [] IsExc(b) -> b
      [] IsNumber(a) /\ IsNumber(b) ->
            IF Num(b)[1] = 0 THEN Exc("ZeroDivisionError")
            ELSE Rounded(a, b, Num(a)[1] * Num(b)[2], Num(a)[2] * Num(b)[1])
      [] OTHER -> Exc("TypeError")

\* the keys of a dict in insertion order, which for a parsed document is the
\* order the document lists them in
KeySeq(v) == v.keys

\* list(v.items()), values only, in the order of the keys
Items(v) ==
    CASE IsExc(v) -> v
      [] v.t = "obj" -> LET ks == KeySeq(v)
                        IN  JList([i \in 1..Len(ks) |-> v.f[ks[i]]])
      [] OTHER -> Exc("AttributeError")

\* the encoding of document d holds the word k as a substring.  k is a word
\* of letters that is part of no JSON literal, so it lies within one key or
\* within one str of d, wherever in d that is
RECURSIVE Mentions(_, _)
Mentions(d, k) ==
    LET within(key) ==
            \E i \in 1..(Len(key) - Len(k) + 1) : SubSeq(key, i, i + Len(k) - 1) = k
        spelt(s) ==
            \E i \in 1..(Len(s) - Len(k) + 1) :
                \A j \in 1..Len(k) : s[i + j - 1] = SubSeq(k, j, j)
    IN  CASE d.t = "obj" -> \E x \in DOMAIN d.f : within(x) \/ Mentions(d.f[x], k)
          [] d.t = "list" -> \E i \in 1..Len(d.items) : Mentions(d.items[i], k)
          [] d.t = "jsonstr" -> Mentions(d.d, k)
          [] d.t = "str" -> spelt(d.s)
          [] OTHER -> FALSE

\* k in v, for a word k as above: a key of a dict, an element of a list, a
\* substring of a str
Contains(v, k) ==
    CASE IsExc(v) -> v
      [] v.t = "obj" -> JBool(k \in DOMAIN v.f)
      [] v.t = "list" ->
            JBool(\E i \in 1..Len(v.items) :
                      /\ v.items[i].t = "str"
                      /\ Len(v.items[i].s) = Len(k)
                      /\ Mentions(v.items[i], k))
      [] v.t \in {"str", "jsonstr"} -> JBool(Mentions(v, k))
      [] OTHER -> Exc("TypeError")

(***************************************************************************)
(* Diagnostics on stderr: a prefix and the text of the exception.          *)
(***************************************************************************)
Diag(prefix, detail) == [prefix |-> prefix, detail |-> detail]

Traceback(kind) == Diag("Traceback (most recent call last):", kind)

\* all sequences over S of length at most n
SeqUpTo(S, n) == UNION {[1..k -> S] : k \in 0..n}

\* text that is not JSON: the empty stream and a bare word
Malformed == {JStr(<<>>), JStr(<<"a", "b", "c">>)}


(***************************************************************************)
(* The scripts, by their path under src/example.                           *)
(***************************************************************************)
HYST == "simple-pod-metrics-python/evaluate.py"
LEGACY == "python/evaluate.py"
RATIO == "scale-on-tweet/evaluate.py"
MULT == "python-custom-autoscaler/evaluate.py"
PROBE_PY == "python/metric.py"
PROBE_SIMPLE == "simple-pod-metrics-python/metric.py"
PROBE_DOWN == "downscale-stabilization/metric.py"
CPU == "cpu/metric.py"
K8S_CPU == "k8s-metrics-cpu/metric.py"
LABEL == "zero-scaler/metric.py"
TWEET == "scale-on-tweet/metric.py"

Evaluators == {HYST, LEGACY, RATIO, MULT}
Probes == {PROBE_PY, PROBE_SIMPLE, PROBE_DOWN}
Extractors == {CPU, K8S_CPU}
Collectors == Probes \cup Extractors \cup {LABEL, TWEET}
Scripts == Evaluators \cup Collectors

Abc == JStr(<<"a", "b", "c">>)
Name == JStr(<<"a">>)

(***************************************************************************)
(* Inputs of the hysteresis evaluator: {"metrics": [{"resource": ...,      *)
(* "value": "<nested JSON>"}], "resource": {"status": {"replicas": n}}}     *)
(***************************************************************************)
AvailableValues ==
    {JInt(0 - 1), JInt(0), JInt(2), JInt(3), JInt(6), JStr(<<"3">>), JNull}

HystNested ==
    {JObj([value |-> JInt(0), available |-> a]) : a \in AvailableValues}
        \cup {JObj([value |-> JInt(0)])}

HystEntries ==
    {JObj([resource |-> Name, value |-> JText(n, "dumps")]) : n \in HystNested}
        \cup {JObj([resource |-> Name, value |-> Abc]),
              JObj([resource |-> Name, value |-> JInt(5)]),
              JObj([resource |-> Name])}

ReplicaValues == {JInt(0), JInt(1), JInt(3), JStr(<<"2">>), JNull}

HystResources ==
    {JObj([kind |-> Name, status |-> JObj([replicas |-> r])]) : r \in ReplicaValues}
        \cup {JObj([kind |-> Name, status |-> JObj(<<>>)]),
              JObj([kind |-> Name])}

HystDocs ==
    {JObj([metrics |-> JList(m), resource |-> r, runType |-> Name]) :
        m \in SeqUpTo(HystEntries, MaxMetrics), r \in HystResources}
        \cup {JObj([metrics |-> JList(m), runType |-> Name]) :
                m \in SeqUpTo(HystEntries, 1)}
        \cup {JObj([resource |-> r]) : r \in HystResources}
        \cup {JNull}

HystInputs == Malformed \cup {JText(d, "dumps") : d \in HystDocs}

(***************************************************************************)
(* Inputs of the legacy evaluator: [{"pod": ..., "available": n}]          *)
(***************************************************************************)
LegacyEntries ==
    {JObj([pod |-> Name, available |-> a]) : a \in AvailableValues}
        \cup {JObj([pod |-> Name]), JObj([available |-> JInt(2)])}

LegacyDocs == {JList(m) : m \in SeqUpTo(LegacyEntries, MaxMetrics)} \cup {JNull}

LegacyInputs == Malformed \cup {JText(d, "dumps") : d \in LegacyDocs}

(***************************************************************************)
(* Inputs of the ratio evaluator: [{"resource": ..., "value":              *)
(* "{\"up\": 3, \"down\": 2}"}]                                            *)
(***************************************************************************)
ThumbValues == {JInt(0), JInt(3), JInt(5), JStr(<<"2">>), JNull}

RatioNested ==
    {JObj([up |-> u, down |-> d]) : u \in ThumbValues, d \in ThumbValues}
        \cup {JObj([up |-> JInt(3)]), JObj([down |-> JInt(5)])}

RatioEntries ==
    {JObj([resource |-> Name, value |-> JText(n, "dumps")]) : n \in RatioNested}
        \cup {JObj([resource |-> Name, value |-> Abc]),
              JObj([resource |-> Name])}

RatioDocs ==
    {JList(m) : m \in SeqUpTo(RatioEntries, 1)}
        \cup {JList(m) : m \in SeqUpTo({JObj([resource |-> Name,
                                              value |-> JText(JObj([up |-> JInt(3), down |-> JInt(5)]), "dumps")]),
                                        JObj([resource |-> Name])}, MaxMetrics + 1)}
        \cup {JNull, JObj([metrics |-> JList(<<>>)])}

RatioInputs == Malformed \cup {JText(d, "dumps") : d \in RatioDocs}

(***************************************************************************)
(* Inputs of the direct-multiplier evaluator: {"resourceMetrics":          *)
(* {"metrics": [{"resource": ..., "value": "3"}]}, "runType": ...}         *)
(***************************************************************************)
MetricTexts ==
    {JStr(<<"3">>), JStr(<<"0">>), JStr(<<"-", "2">>), JStr(<<"+", "1">>),
     JStr(<<" ", "4", " ">>), JStr(<<"0", "7">>), JStr(<<"1", "2">>),
     Abc, JStr(<<>>), JStr(<<"3", "a">>), JStr(<<"-">>),
     JText(JObj([value |-> JInt(3)]), "dumps")}

MultValues == MetricTexts \cup {JInt(3), JNull, JBool(TRUE), JFloat(5, 2), JList(<<>>)}

MultEntries ==
    {JObj([resource |-> Name, value |-> v]) : v \in MultValues}
        \cup {JObj([resource |-> Name])}

MultDocs ==
    {JObj([resourceMetrics |-> JObj([metrics |-> JList(m), resource |-> JObj(<<>>)]),
           runType |-> Name]) :
        m \in {s \in SeqUpTo(MultEntries, MaxMetrics) :
                 \A i \in 2..Len(s) : s[i] = JObj([resource |-> Name, value |-> Abc])}}
        \cup {JObj([resourceMetrics |-> JObj(<<>>)]), JObj([runType |-> Name]), JNull}

MultInputs == Malformed \cup {JText(d, "dumps") : d \in MultDocs}
(***************************************************************************)
(* Inputs of the remote-probe collectors: a pod, {"status": {"podIP":      *)
(* ...}}, or for downscale-stabilization {"resource": {"status": ...}}     *)
(***************************************************************************)
PodStatuses ==
    {JObj([phase |-> Name, podIP |-> Name]), JObj([phase |-> Name]), JNull}

PodDocs ==
    {JObj([kind |-> Name, status |-> s]) : s \in PodStatuses}
        \cup {JObj([kind |-> Name]), JNull}

ProbeDocs(s) ==
    IF s = PROBE_DOWN
    THEN {JObj([resource |-> p, runType |-> Name]) : p \in PodDocs}
            \cup {JObj([runType |-> Name])}
    ELSE PodDocs

ProbeInputs(s) == Malformed \cup {JText(d, "dumps") : d \in ProbeDocs(s)}

\* what the metric endpoint may answer: its own JSON, an empty body, plain text
Bodies ==
    {JText(JObj([value |-> JInt(2), available |-> JInt(3), min |-> JInt(0), max |-> JInt(5)]),
           "dumps"),
     JStr(<<>>), Abc}

StatusCodes == {200, 204, 404, 500}

\* every outcome of requests.get: a response, whatever its status, or an
\* exception of the transport
HttpOutcomes ==
    {[t |-> "response", status_code |-> c, text |-> b] : c \in StatusCodes, b \in Bodies}
        \cup {Exc("ConnectionError"), Exc("ChunkedEncodingError")}

(***************************************************************************)
(* Inputs of the extraction collectors: {"kubernetesMetrics":              *)
(* [{"current_replicas": n, "resource": {"pod_metrics_info": {pod:         *)
(* {"Value": v, ...}}}}]}                                                  *)
(***************************************************************************)
PodNames == <<"pod-a", "pod-b", "pod-c", "pod-d">>

PodValues == {JInt(0), JInt(3), JInt(4), Abc, JNull}

PodInfos ==
    {JObj([Timestamp |-> Name, Window |-> JInt(30), Value |-> v]) : v \in PodValues}
        \cup {JObj([Timestamp |-> Name])}

\* the orders a document can list the keys K in
Orders(K) ==
    {s \in [1..Cardinality(K) -> K] : \A i, j \in DOMAIN s : s[i] = s[j] => i = j}

\* up to MaxPods pods, listed in every order
PodMetricsInfos ==
    {JDict(kf[1], kf[2]) : kf \in
        UNION {Orders({PodNames[i] : i \in 1..k}) \X [{PodNames[i] : i \in 1..k} -> PodInfos] :
                   k \in 0..MaxPods}}
        \cup {JNull}

CurrentReplicas == {JInt(0), JInt(1), JInt(2), JInt(3), JStr(<<"2">>), JNull}

CpuMetrics ==
    {JObj([current_replicas |-> c, resource |-> JObj([pod_metrics_info |-> p])]) :
        c \in CurrentReplicas, p \in PodMetricsInfos}
        \cup {JObj([resource |-> JObj([pod_metrics_info |-> p])]) : p \in PodMetricsInfos}
        \cup {JObj([current_replicas |-> JInt(1)]),
              JObj([current_replicas |-> JInt(1), resource |-> JObj(<<>>)])}

CpuDocs ==
    {JObj([kubernetesMetrics |-> JList(<<m>>)]) : m \in CpuMetrics}
        \cup {JObj([kubernetesMetrics |-> JList(<<>>)]), JObj([runType |-> Name]), JNull}

CpuInputs == Malformed \cup {JText(d, "dumps") : d \in CpuDocs}

(***************************************************************************)
(* Inputs of the label collector: {"resource": {"metadata": {"labels":     *)
(* {"numPods": "3"}}}}                                                     *)
(***************************************************************************)
LabelSets ==
    {JObj([numPods |-> v]) : v \in {JStr(<<"3">>), JStr(<<"0">>), Abc, JStr(<<>>), JInt(3), JNull}}
        \cup {JObj([numPods |-> JStr(<<"3">>), app |-> Name]),
              JObj([app |-> Name]), JObj(<<>>), JNull, JList(<<>>),
              JObj([numPodsTotal |-> JStr(<<"3">>)]),
              JText(JObj([numPodsTotal |-> JStr(<<"3">>)]), "dumps"),
              JText(JObj([app |-> Name]), "dumps"), Abc}

LabelDocs ==
    {JObj([resource |-> JObj([kind |-> Name, metadata |-> JObj([name |-> Name, labels |-> l])]),
           runType |-> Name]) : l \in LabelSets}
        \cup {JObj([resource |-> JObj([kind |-> Name, metadata |-> JObj([name |-> Name])])]),
              JObj([resource |-> JObj([kind |-> Name])]),
              JObj([runType |-> Name]), JNull}

LabelInputs == Malformed \cup {JText(d, "dumps") : d \in LabelDocs}

(***************************************************************************)
(* The search collector reads no stdin: its input is the environment and   *)
(* what the search service returns.                                        *)
(***************************************************************************)
CONSUMER_KEY_ENV == "consumerKey"
CONSUMER_SECRET_ENV == "consumerSecret"
ACCESS_TOKEN_ENV == "accessToken"
ACCESS_TOKEN_SECRET_ENV == "accessTokenSecret"
HASHTAG_ENV == "hashtag"

EnvKeys ==
    <<CONSUMER_KEY_ENV, CONSUMER_SECRET_ENV, ACCESS_TOKEN_ENV, ACCESS_TOKEN_SECRET_ENV,
      HASHTAG_ENV>>

AllEnv == {EnvKeys[i] : i \in 1..Len(EnvKeys)}

\* a tweet, by what its text holds
Tweets == {[up |-> u, down |-> d] : u \in BOOLEAN, d \in BOOLEAN}

SearchOutcomes == {JList(s) : s \in SeqUpTo(Tweets, MaxMetrics)} \cup {Exc("TwitterError")}

\* The world around an invocation: the environment variables set, what the
\* search service returns, and how the pod's metric endpoint answers.
SearchEnvirons ==
    {[keys |-> AllEnv, search |-> o, http |-> JNull] : o \in SearchOutcomes}
        \cup {[keys |-> AllEnv \ {k}, search |-> JList(<<>>), http |-> JNull] : k \in AllEnv}

ProbeEnvirons == {[keys |-> {}, search |-> JNull, http |-> o] : o \in HttpOutcomes}

NoEnviron == [keys |-> {}, search |-> JNull, http |-> JNull]

Environs(s) ==
    CASE s = TWEET -> SearchEnvirons
      [] s \in Probes -> ProbeEnvirons
      [] OTHER -> {NoEnviron}

Inputs(s) ==
    CASE s = HYST -> HystInputs
      [] s = LEGACY -> LegacyInputs
      [] s = RATIO -> RatioInputs
      [] s = MULT -> MultInputs
      [] s \in Probes -> ProbeInputs(s)
      [] s \in Extractors -> CpuInputs
      [] s = LABEL -> LabelInputs
      [] s = TWEET -> Malformed

(***************************************************************************)
(* The Python runtime around every script.                                 *)
(***************************************************************************)
\* /post_scale_data.json before the hook first ran: there is no such file
NoFile == [exists |-> FALSE, chunks |-> <<>>]

\* the file holding the chunks written to it since it was created or truncated
File(chunks) == [exists |-> TRUE, chunks |-> chunks]

Threads == 1..MaxThreads

\* a worker thread with no request to handle
Idle == [route |-> "", method |-> "", pc |-> "idle", tmp |-> 0, status |-> 0, body |-> JNull]

\* the server has answered nothing yet
NoneServed == [requests |-> 0, increments |-> 0, decrements |-> 0, last |-> JNull]

\* global_metric = 0 at import of api.py; nothing was run or served yet
WorldStart ==
    /\ file = NoFile
    /\ runs = <<>>
    /\ global_metric = 0
    /\ handlers = [t \in Threads |-> Idle]
    /\ served = NoneServed

\* a process at its start: nothing bound, nothing written, still running
ProcessStart ==
    /\ pc = "main"
    /\ spec = JNull
    /\ idx = 0
    /\ total_available = 0
    /\ total_utilization = JInt(0)
    /\ target_replica_count = Unbound
    /\ replicas = Unbound
    /\ value = Unbound
    /\ average_utilization = Unbound
    /\ response = Unbound
    /\ num_up = 0
    /\ num_down = 0
    /\ exc = NoExc
    /\ stdout = <<>>
    /\ stderr = <<>>
    /\ exitStatus = 0 - 1

Init ==
    /\ script \in Scripts
    /\ stdin \in Inputs(script)
    /\ environ \in Environs(script)
    /\ WorldStart
    /\ ProcessStart

\* raise e: the exception leaves the function it was raised in
Raise(e) ==
    /\ exc' = e
    /\ pc' = "raised"
    /\ UNCHANGED <<given, locals, stdout, stderr, exitStatus>>

\* an exception no handler caught: the interpreter prints the traceback on
\* stderr and the process ends with status 1
Uncaught ==
    /\ pc = "raised"
    /\ stderr' = Append(stderr, Traceback(exc.kind))
    /\ exitStatus' = 1
    /\ pc' = "done"
    /\ UNCHANGED <<given, locals, exc, stdout>>

\* main() returned: the process ends with status 0
ExitNormally ==
    /\ pc = "return"
    /\ exitStatus' = 0
    /\ pc' = "done"
    /\ UNCHANGED <<given, locals, exc, stdout, stderr>>

\* sys.stderr.write(d); exit(code)
WriteErrAndExit(d, code) ==
    /\ stderr' = Append(stderr, d)
    /\ exitStatus' = code
    /\ pc' = "done"
    /\ UNCHANGED <<given, locals, exc, stdout>>

\* sys.stdout.write(s), the last statement of the function: write() takes a str
WriteOut(s) ==
    IF IsExc(s) THEN Raise(s)
    ELSE IF ~IsStr(s) THEN Raise(Exc("TypeError"))
    ELSE /\ stdout' = Append(stdout, s)
         /\ pc' = "return"
         /\ UNCHANGED <<given, locals, exc, stderr, exitStatus>>

\* spec = json.loads(sys.stdin.read()), the body of main() before the call
ReadSpec(next) ==
    LET r == Loads(stdin)
    IN  IF IsExc(r) THEN Raise(r)
        ELSE /\ spec' = r
             /\ pc' = next
             /\ UNCHANGED <<given, idx, total_available, total_utilization,
                            target_replica_count, replicas, value, average_utilization,
                            response, num_up, num_down, exc, stdout, stderr, exitStatus>>
(***************************************************************************)
(* simple-pod-metrics-python/evaluate.py: the hysteresis evaluator.        *)
(***************************************************************************)
HystMain ==
    /\ script = HYST
    /\ pc = "main"
    /\ ReadSpec("for")

\* one turn of: for metric in spec["metrics"]
HystLoopBody ==
    /\ script = HYST
    /\ pc = "for"
    /\ LET it == Iter(Sub(spec, "metrics"))
       IN  IF IsExc(it) THEN Raise(it)
           ELSE /\ idx < Len(it.items)
                /\ LET metric == it.items[idx + 1]
                       json_value == Loads(Sub(metric, "value"))
                       available == Sub(json_value, "available")
                       n == PyInt(available)
                   IN  IF IsExc(n) THEN Raise(n)
                       ELSE /\ total_available' = total_available + n.n
                            /\ idx' = idx + 1
                            /\ UNCHANGED <<given, pc, spec, total_utilization,
                                           target_replica_count, replicas, value,
                                           average_utilization, response, num_up,
                                           num_down, exc, stdout, stderr, exitStatus>>

\* a baseline that falls back on the number of metric entries when the
\* resource reports no replica count
HystReplicasOrCount(doc) ==
    LET r == PyInt(Sub(Sub(Sub(doc, "resource"), "status"), "replicas"))
    IN  IF r = Exc("KeyError") THEN PyLen(Sub(doc, "metrics")) ELSE r

\* int(spec["resource"]["status"]["replicas"])
HystReplicas(doc) == PyInt(Sub(Sub(Sub(doc, "resource"), "status"), "replicas"))

\* the loop is exhausted: target_replica_count = the current replica count
HystBaseline ==
    /\ script = HYST
    /\ pc = "for"
    /\ LET it == Iter(Sub(spec, "metrics"))
       IN  /\ ~IsExc(it)
           /\ idx = Len(it.items)
    /\ LET r == HystReplicas(spec)
       IN  IF IsExc(r) THEN Raise(r)
           ELSE /\ target_replica_count' = r
                /\ pc' = "decide"
                /\ UNCHANGED <<given, spec, idx, total_available, total_utilization,
                               replicas, value, average_utilization, response, num_up,
                               num_down, exc, stdout, stderr, exitStatus>>

\* the band with its upper threshold off by one: decrements at 5 already
HystAdjustInclusive(total, count) ==
    LET down == IF total >= 5 THEN count - 1 ELSE count
    IN  IF total <= 0 THEN down + 1 ELSE down

\* if total_available > 5: count -= 1;  if total_available <= 0: count += 1
HystAdjust(total, count) ==
    LET down == IF total > 5 THEN count - 1 ELSE count
    IN  IF total <= 0 THEN down + 1 ELSE down

HystDecide ==
    /\ script = HYST
    /\ pc = "decide"
    /\ target_replica_count' = JInt(HystAdjust(total_available, target_replica_count.n))
    /\ pc' = "write"
    /\ UNCHANGED <<given, spec, idx, total_available, total_utilization, replicas, value,
                   average_utilization, response, num_up, num_down, exc, stdout, stderr,
                   exitStatus>>

\* evaluation["targetReplicas"] = target_replica_count
HystEvaluation(count) == JObj([targetReplicas |-> count])

\* sys.stdout.write(json.dumps(evaluation))
HystWrite ==
    /\ script = HYST
    /\ pc = "write"
    /\ WriteOut(Dumps(HystEvaluation(target_replica_count)))

(***************************************************************************)
(* python/evaluate.py: the legacy evaluator.  target_replica_count is      *)
(* assigned inside evaluate(), so it is a local there, and it is read      *)
(* before anything is bound to it.                                         *)
(***************************************************************************)
LegacyMain ==
    /\ script = LEGACY
    /\ pc = "main"
    /\ ReadSpec("for")

\* one turn of: for metric in metrics
LegacyLoopBody ==
    /\ script = LEGACY
    /\ pc = "for"
    /\ LET it == Iter(spec)
       IN  IF IsExc(it) THEN Raise(it)
           ELSE /\ idx < Len(it.items)
                /\ LET metric == it.items[idx + 1]
                       pod == Sub(metric, "pod")
                       available == Sub(metric, "available")
                       n == PyInt(available)
                   IN  IF IsExc(pod) THEN Raise(pod)
                       ELSE IF IsExc(n) THEN Raise(n)
                       ELSE /\ total_available' = total_available + n.n
                            /\ idx' = idx + 1
                            /\ UNCHANGED <<given, pc, spec, total_utilization,
                                           target_replica_count, replicas, value,
                                           average_utilization, response, num_up,
                                           num_down, exc, stdout, stderr, exitStatus>>

\* evaluate() with target_replica_count bound to 0 before the two ifs
LegacyDecideFromZero ==
    /\ script = LEGACY
    /\ pc = "for"
    /\ LET it == Iter(spec)
       IN  /\ ~IsExc(it)
           /\ idx = Len(it.items)
    /\ target_replica_count' = JInt(HystAdjust(total_available, 0))
    /\ pc' = "write"
    /\ UNCHANGED <<given, spec, idx, total_available, total_utilization, replicas, value,
                   average_utilization, response, num_up, num_down, exc, stdout, stderr,
                   exitStatus>>

\* the two ifs after the loop; each reads target_replica_count to update it
LegacyDecide ==
    /\ script = LEGACY
    /\ pc = "for"
    /\ LET it == Iter(spec)
       IN  /\ ~IsExc(it)
           /\ idx = Len(it.items)
    /\ IF total_available > 5 \/ total_available <= 0
       THEN IF target_replica_count = Unbound THEN Raise(Exc("UnboundLocalError"))
            ELSE /\ target_replica_count' =
                        JInt(HystAdjust(total_available, target_replica_count.n))
                 /\ pc' = "write"
                 /\ UNCHANGED <<given, spec, idx, total_available, total_utilization,
                                replicas, value, average_utilization, response, num_up,
                                num_down, exc, stdout, stderr, exitStatus>>
       ELSE /\ pc' = "write"
            /\ UNCHANGED <<given, locals, exc, stdout, stderr, exitStatus>>

\* evaluation["target_replicas"] = target_replica_count
LegacyEvaluation(count) == JObj([target_replicas |-> count])

\* the read of target_replica_count, then sys.stdout.write(json.dumps(evaluation))
LegacyWrite ==
    /\ script = LEGACY
    /\ pc = "write"
    /\ IF target_replica_count = Unbound THEN Raise(Exc("UnboundLocalError"))
       ELSE WriteOut(Dumps(LegacyEvaluation(target_replica_count)))

(***************************************************************************)
(* scale-on-tweet/evaluate.py: the ratio evaluator.                        *)
(***************************************************************************)
RatioMain ==
    /\ script = RATIO
    /\ pc = "main"
    /\ ReadSpec("check")

\* if len(metrics) != 1: sys.stderr.write("Expected 1 metric"); exit(1)
RatioExpectOne ==
    /\ script = RATIO
    /\ pc = "check"
    /\ LET n == PyLen(spec)
       IN  IF IsExc(n) THEN Raise(n)
           ELSE /\ n.n # 1
                /\ WriteErrAndExit(Diag("Expected 1 metric", ""), 1)

\* the difference clamped at zero
RatioReplicasClamped(up, down) == IF up - down < 0 THEN 0 ELSE up - down

\* replicas = up - down
RatioReplicas(up, down) == up - down

\* tweet_ratio_json = json.loads(metrics[0]["value"]); up, down; replicas
RatioCompute ==
    /\ script = RATIO
    /\ pc = "check"
    /\ LET n == PyLen(spec)
       IN  /\ ~IsExc(n)
           /\ n.n = 1
    /\ LET tweet_ratio_json == Loads(Sub(At(spec, 0), "value"))
           up == PyInt(Sub(tweet_ratio_json, "up"))
           down == PyInt(Sub(tweet_ratio_json, "down"))
       IN  IF IsExc(up) THEN Raise(up)
           ELSE IF IsExc(down) THEN Raise(down)
           ELSE /\ replicas' = JInt(RatioReplicas(up.n, down.n))
                /\ pc' = "write"
                /\ UNCHANGED <<given, spec, idx, total_available, total_utilization,
                               target_replica_count, value, average_utilization,
                               response, num_up, num_down, exc, stdout, stderr,
                               exitStatus>>

\* evaluation["target_replicas"] = replicas
RatioEvaluation(count) == JObj([target_replicas |-> count])

RatioWrite ==
    /\ script = RATIO
    /\ pc = "write"
    /\ WriteOut(Dumps(RatioEvaluation(replicas)))

(***************************************************************************)
(* python-custom-autoscaler/evaluate.py: the direct-multiplier evaluator.  *)
(***************************************************************************)
MultMain ==
    /\ script = MULT
    /\ pc = "main"
    /\ ReadSpec("try")

\* value = int(spec["resourceMetrics"]["metrics"][0]["value"]), inside try
MultTry ==
    /\ script = MULT
    /\ pc = "try"
    /\ LET v == PyInt(Sub(At(Sub(Sub(spec, "resourceMetrics"), "metrics"), 0), "value"))
       IN  IF IsExc(v)
           THEN IF v.kind = "ValueError"
                THEN /\ exc' = v
                     /\ pc' = "except"
                     /\ UNCHANGED <<given, locals, stdout, stderr, exitStatus>>
                ELSE Raise(v)
           ELSE /\ value' = v
                /\ pc' = "write"
                /\ UNCHANGED <<given, spec, idx, total_available, total_utilization,
                               target_replica_count, replicas, average_utilization,
                               response, num_up, num_down, exc, stdout, stderr,
                               exitStatus>>

\* the evaluation without the doubling
MultEvaluationSame(v) == JObj([targetReplicas |-> JInt(v)])

\* evaluation["targetReplicas"] = value * 2
MultEvaluation(v) == JObj([targetReplicas |-> JInt(v * 2)])

MultWrite ==
    /\ script = MULT
    /\ pc = "write"
    /\ WriteOut(Dumps(MultEvaluation(value.n)))

\* the handler printing its diagnostic on stdout instead of stderr
MultInvalidOnStdout ==
    /\ script = MULT
    /\ pc = "except"
    /\ stdout' = Append(stdout, JStr(<<"a">>))
    /\ exitStatus' = 1
    /\ pc' = "done"
    /\ UNCHANGED <<given, locals, exc, stderr>>

\* except ValueError as err: sys.stderr.write(f"Invalid metric value: {err}"); exit(1)
MultInvalid ==
    /\ script = MULT
    /\ pc = "except"
    /\ WriteErrAndExit(Diag("Invalid metric value: ", exc.kind), 1)
(***************************************************************************)
(* python/metric.py, simple-pod-metrics-python/metric.py and               *)
(* downscale-stabilization/metric.py: the remote-probe collectors.         *)
(***************************************************************************)
\* the names bound in the module: its imports and its two functions
ModuleNames == {"json", "sys", "requests", "main", "metric"}

\* the exceptions `except HTTPError` would catch, were the name bound
HTTPErrors == {"HTTPError"}

ProbeMain ==
    /\ script \in Probes
    /\ pc = "main"
    /\ ReadSpec("metric")

\* status = pod["status"] (spec["resource"]["status"] in downscale-stabilization);
\* ip = status["podIP"]
ProbeIp(s, doc) ==
    LET status == IF s = PROBE_DOWN THEN Sub(Sub(doc, "resource"), "status")
                  ELSE Sub(doc, "status")
    IN  Sub(status, "podIP")

ProbeAddress ==
    /\ script \in Probes
    /\ pc = "metric"
    /\ LET ip == ProbeIp(script, spec)
       IN  IF IsExc(ip) THEN Raise(ip)
           ELSE /\ pc' = "try"
                /\ UNCHANGED <<given, locals, exc, stdout, stderr, exitStatus>>

\* response = requests.get(f"http://{ip}:5000/metric"): it returns whatever
\* the endpoint answered, or raises what the transport raised
ProbeRequest ==
    /\ script \in Probes
    /\ pc = "try"
    /\ IF IsExc(environ.http)
       THEN /\ exc' = environ.http
            /\ pc' = "except"
            /\ UNCHANGED <<given, locals, stdout, stderr, exitStatus>>
       ELSE /\ response' = environ.http
            /\ pc' = "write"
            /\ UNCHANGED <<given, spec, idx, total_available, total_utilization,
                           target_replica_count, replicas, value, average_utilization,
                           num_up, num_down, exc, stdout, stderr, exitStatus>>

\* sys.stdout.write(response.text)
ProbeWrite ==
    /\ script \in Probes
    /\ pc = "write"
    /\ WriteOut(response.text)

\* except HTTPError as http_err: ... except Exception as err: ...
\* The clauses are tried in order and the first one names HTTPError.
ProbeExcept ==
    /\ script \in Probes
    /\ pc = "except"
    /\ IF "HTTPError" \notin ModuleNames THEN Raise(Exc("NameError"))
       ELSE IF exc.kind \in HTTPErrors
       THEN WriteErrAndExit(Diag("HTTP error occurred: ", exc.kind), 1)
       ELSE WriteErrAndExit(Diag("Other error occurred: ", exc.kind), 1)

(***************************************************************************)
(* cpu/metric.py and k8s-metrics-cpu/metric.py: the extraction collectors. *)
(***************************************************************************)
CpuMain ==
    /\ script \in Extractors
    /\ pc = "main"
    /\ ReadSpec("metric")

\* cpu_metrics = spec["kubernetesMetrics"][0]
CpuMetricsOf(doc) == At(Sub(doc, "kubernetesMetrics"), 0)

\* current_replicas = cpu_metrics["current_replicas"]
CurrentReplicasOf(doc) == Sub(CpuMetricsOf(doc), "current_replicas")

\* pod_metrics_info = cpu_metrics["resource"]["pod_metrics_info"]
PodMetricsInfoOf(doc) == Sub(Sub(CpuMetricsOf(doc), "resource"), "pod_metrics_info")

\* the statements before the loop, and pod_metrics_info.items()
CpuSetup ==
    /\ script \in Extractors
    /\ pc = "metric"
    /\ LET current_replicas == CurrentReplicasOf(spec)
           items == Items(PodMetricsInfoOf(spec))
       IN  IF IsExc(current_replicas) THEN Raise(current_replicas)
           ELSE IF IsExc(items) THEN Raise(items)
           ELSE /\ total_utilization' = JInt(0)
                /\ pc' = "for"
                /\ UNCHANGED <<given, spec, idx, total_available, target_replica_count,
                               replicas, value, average_utilization, response, num_up,
                               num_down, exc, stdout, stderr, exitStatus>>

\* one turn of the loop: total_utilization += pod_info["Value"]
CpuLoopBody ==
    /\ script \in Extractors
    /\ pc = "for"
    /\ LET items == Items(PodMetricsInfoOf(spec)).items
       IN  /\ idx < Len(items)
           /\ LET pod_info == items[idx + 1]
                  sum == PyAdd(total_utilization, Sub(pod_info, "Value"))
              IN  IF IsExc(sum) THEN Raise(sum)
                  ELSE /\ total_utilization' = sum
                       /\ idx' = idx + 1
                       /\ UNCHANGED <<given, pc, spec, total_available,
                                      target_replica_count, replicas, value,
                                      average_utilization, response, num_up, num_down,
                                      exc, stdout, stderr, exitStatus>>

\* the average taken over the entries present instead of the replicas
CpuDivideByEntries(total, doc) ==
    PyTrueDiv(total, PyLen(PodMetricsInfoOf(doc)))

\* average_utilization = total_utilization / current_replicas
CpuDivide(total, doc) == PyTrueDiv(total, CurrentReplicasOf(doc))

CpuAverage ==
    /\ script \in Extractors
    /\ pc = "for"
    /\ idx = Len(Items(PodMetricsInfoOf(spec)).items)
    /\ LET avg == CpuDivide(total_utilization, spec)
       IN  IF IsExc(avg) THEN Raise(avg)
           ELSE /\ average_utilization' = avg
                /\ pc' = "write"
                /\ UNCHANGED <<given, spec, idx, total_available, total_utilization,
                               target_replica_count, replicas, value, response, num_up,
                               num_down, exc, stdout, stderr, exitStatus>>

\* {"current_replicas": current_replicas, "average_utilization": average_utilization}
CpuResult(current_replicas, avg) ==
    JObj([current_replicas |-> current_replicas, average_utilization |-> avg])

CpuWrite ==
    /\ script \in Extractors
    /\ pc = "write"
    /\ WriteOut(Dumps(CpuResult(CurrentReplicasOf(spec), average_utilization)))

(***************************************************************************)
(* zero-scaler/metric.py: the label collector.                             *)
(***************************************************************************)
LabelMain ==
    /\ script = LABEL
    /\ pc = "main"
    /\ ReadSpec("metric")

\* labels = spec["resource"]["metadata"]["labels"]
LabelsOf(doc) == Sub(Sub(Sub(doc, "resource"), "metadata"), "labels")

\* if "numPods" in labels: sys.stdout.write(labels["numPods"])
LabelWrite ==
    /\ script = LABEL
    /\ pc = "metric"
    /\ LET has == Contains(LabelsOf(spec), "numPods")
       IN  IF IsExc(has) THEN Raise(has)
           ELSE /\ has.b
                /\ WriteOut(Sub(LabelsOf(spec), "numPods"))

\* the else branch without its exit(1): the message is written and metric() returns
LabelMissingNoExit ==
    /\ script = LABEL
    /\ pc = "metric"
    /\ LET has == Contains(LabelsOf(spec), "numPods")
       IN  /\ ~IsExc(has)
           /\ ~has.b
    /\ stderr' = Append(stderr, Diag("No 'numPods' label on resource being managed", ""))
    /\ pc' = "return"
    /\ UNCHANGED <<given, locals, exc, stdout, exitStatus>>

\* else: sys.stderr.write("No 'numPods' label on resource being managed"); exit(1)
LabelMissing ==
    /\ script = LABEL
    /\ pc = "metric"
    /\ LET has == Contains(LabelsOf(spec), "numPods")
       IN  /\ ~IsExc(has)
           /\ ~has.b
    /\ WriteErrAndExit(Diag("No 'numPods' label on resource being managed", ""), 1)

(***************************************************************************)
(* scale-on-tweet/metric.py: the search collector.                         *)
(***************************************************************************)
\* the five os.environ[...] reads, in order
TweetEnv ==
    /\ script = TWEET
    /\ pc = "main"
    /\ IF \E i \in 1..Len(EnvKeys) : EnvKeys[i] \notin environ.keys
       THEN Raise(Exc("KeyError"))
       ELSE /\ pc' = "search"
            /\ UNCHANGED <<given, locals, exc, stdout, stderr, exitStatus>>

\* tweets = api.GetSearch(...)
TweetSearch ==
    /\ script = TWEET
    /\ pc = "search"
    /\ IF IsExc(environ.search) THEN Raise(environ.search)
       ELSE /\ pc' = "for"
            /\ UNCHANGED <<given, locals, exc, stdout, stderr, exitStatus>>

\* one turn of: for tweet in tweets
TweetLoopBody ==
    /\ script = TWEET
    /\ pc = "for"
    /\ idx < Len(environ.search.items)
    /\ LET tweet == environ.search.items[idx + 1]
       IN  /\ num_up' = IF tweet.up THEN num_up + 1 ELSE num_up
           /\ num_down' = IF ~tweet.up /\ tweet.down THEN num_down + 1 ELSE num_down
    /\ idx' = idx + 1
    /\ UNCHANGED <<given, pc, spec, total_available, total_utilization,
                   target_replica_count, replicas, value, average_utilization, response,
                   exc, stdout, stderr, exitStatus>>

\* sys.stdout.write(json.dumps({"up": num_up, "down": num_down}))
TweetWrite ==
    /\ script = TWEET
    /\ pc = "for"
    /\ idx = Len(environ.search.items)
    /\ WriteOut(Dumps(JObj([up |-> JInt(num_up), down |-> JInt(num_down)])))

Next ==
    \/ HystMain
    \/ HystLoopBody
    \/ HystBaseline
    \/ HystDecide
    \/ HystWrite
    \/ LegacyMain
    \/ LegacyLoopBody
    \/ LegacyDecide
    \/ LegacyWrite
    \/ RatioMain
    \/ RatioExpectOne
    \/ RatioCompute
    \/ RatioWrite
    \/ MultMain
    \/ MultTry
    \/ MultWrite
    \/ MultInvalid
    \/ ProbeMain
    \/ ProbeAddress
    \/ ProbeRequest
    \/ ProbeWrite
    \/ ProbeExcept
    \/ CpuMain
    \/ CpuSetup
    \/ CpuLoopBody
    \/ CpuAverage
    \/ CpuWrite
    \/ LabelMain
    \/ LabelWrite
    \/ LabelMissing
    \/ TweetEnv
    \/ TweetSearch
    \/ TweetLoopBody
    \/ TweetWrite
    \/ Uncaught
    \/ ExitNormally

Spec == Init /\ [][Next]_vars


(***************************************************************************)
(* post-scale-hook/post_scale.py: run after every scale, once per scale.   *)
(* One behaviour of SpecHook is up to MaxInvocations runs in a row, each   *)
(* on its own input; the file outlives the process.                        *)
(***************************************************************************)
HOOK == "post-scale-hook/post_scale.py"

\* what the autoscaler pipes in: the scale it made.  No document is a float,
\* so no two encodings put end to end spell a document unless both are integers.
ScaleInfos ==
    {JObj([targetReplicas |-> JInt(n), runType |-> JStr(Abc)]) : n \in 1..2}
        \cup {JInt(3), JInt(4), JNull}

HookInputs ==
    Malformed \cup {JStr(<<" ", "3">>)}
        \cup {JText(d, fmt) : d \in ScaleInfos, fmt \in {"dumps", "indented"}}

\* whether / can be written by the process: open() raises OSError when it cannot
HookEnvirons ==
    {[keys |-> {}, search |-> JNull, http |-> JNull, readonly |-> b] : b \in BOOLEAN}

InitHook ==
    /\ script = HOOK
    /\ stdin \in HookInputs
    /\ environ \in HookEnvirons
    /\ WorldStart
    /\ ProcessStart

\* the characters of the chunks of a file, end to end
RECURSIVE Chars(_)
Chars(chunks) == IF chunks = <<>> THEN <<>> ELSE chunks[1].s \o Chars(Tail(chunks))

\* json.load of the file: its chunks end to end make one text
FileParse(f) ==
    IF ~f.exists THEN Exc("FileNotFoundError")
    ELSE IF Len(f.chunks) = 1 THEN Loads(f.chunks[1])
    ELSE IF \A i \in 1..Len(f.chunks) : f.chunks[i].t = "str"
         THEN Loads(JStr(Chars(f.chunks)))
    ELSE Exc("ValueError")

\* scale_info = json.loads(sys.stdin.read())
HookMain ==
    /\ script = HOOK
    /\ pc = "main"
    /\ ReadSpec("open")

\* open("/post_scale_data.json", "a+"): the file is created, its content kept
HookOpenAppend ==
    /\ script = HOOK
    /\ pc = "open"
    /\ IF environ.readonly THEN Raise(Exc("OSError"))
       ELSE /\ file' = File(file.chunks)
            /\ pc' = "write"
            /\ UNCHANGED <<script, stdin, environ, runs, server, locals, exc, stdout,
                           stderr, exitStatus>>

\* open("/post_scale_data.json", "w+"): the file is created or truncated
HookOpen ==
    /\ script = HOOK
    /\ pc = "open"
    /\ IF environ.readonly THEN Raise(Exc("OSError"))
       ELSE /\ file' = File(<<>>)
            /\ pc' = "write"
            /\ UNCHANGED <<script, stdin, environ, runs, server, locals, exc, stdout,
                           stderr, exitStatus>>

\* file.write(json.dumps(scale_info)) and the close at the end of the with block
HookWrite ==
    /\ script = HOOK
    /\ pc = "write"
    /\ file' = File(Append(file.chunks, Dumps(spec)))
    /\ pc' = "return"
    /\ UNCHANGED <<script, stdin, environ, runs, server, locals, exc, stdout, stderr,
                   exitStatus>>

\* what is known of a run once its process has ended
Ended == [stdin |-> stdin, exitStatus |-> exitStatus, file |-> file]

\* the autoscaler scales again and starts the hook on the new scale
HookInvoke ==
    /\ script = HOOK
    /\ pc = "done"
    /\ Len(runs) + 1 < MaxInvocations
    /\ runs' = Append(runs, Ended)
    /\ stdin' \in HookInputs
    /\ environ' \in HookEnvirons
    /\ pc' = "main"
    /\ spec' = JNull
    /\ exc' = NoExc
    /\ stdout' = <<>>
    /\ stderr' = <<>>
    /\ exitStatus' = 0 - 1
    /\ UNCHANGED <<script, file, server, idx, total_available, total_utilization,
                   target_replica_count, replicas, value, average_utilization, response,
                   num_up, num_down>>

NextHook ==
    \/ HookMain
    \/ HookOpen
    \/ HookWrite
    \/ HookInvoke
    \/ Uncaught
    \/ ExitNormally

SpecHook == InitHook /\ [][NextHook]_vars

(***************************************************************************)
(* python/app/api.py: the demo metric server the probes ask.  Flask runs   *)
(* each request's handler on a worker thread; the handlers share the       *)
(* module global global_metric and take no lock.  A behaviour of           *)
(* SpecSerial has one request in flight at a time; in a behaviour of       *)
(* SpecConcurrent every idle thread may take a request, and a thread may   *)
(* be switched out between any two reads or writes of the global and       *)
(* before its response goes out.                                           *)
(***************************************************************************)
SERVER == "python/app/api.py"

MAX_METRIC == 5
MIN_METRIC == 0

Routes == {"/metric", "/increment", "/decrement"}

\* @app.route(..., methods = ...): the methods a route answers to
Methods(route) == IF route = "/metric" THEN {"GET"} ELSE {"POST"}

Requests == [route : Routes, method : {"GET", "POST"}]

InitServer ==
    /\ script = SERVER
    /\ stdin = JStr(<<>>)
    /\ environ = NoEnviron
    /\ WorldStart
    /\ ProcessStart

\* what no handler touches
untouched == <<script, stdin, environ, pc, exc, stdout, stderr, exitStatus, locals,
               file, runs>>

\* no request is being handled
Quiescent == \A t \in Threads : handlers[t].pc = "idle"

\* json.dumps({"value": ..., "available": ..., "min": ..., "max": ...})
Body(v, a) ==
    Dumps(JObj([value |-> JInt(v), available |-> JInt(a),
                min |-> JInt(MIN_METRIC), max |-> JInt(MAX_METRIC)]))

\* the tally once a response with this status went out to the request of thread t
Reply(t, status, body) ==
    LET h == handlers[t]
        ok(route) == IF h.route = route /\ status = 200 THEN 1 ELSE 0
    IN  [served EXCEPT !.increments = @ + ok("/increment"),
                       !.decrements = @ + ok("/decrement"),
                       !.last = [route |-> h.route, method |-> h.method,
                                 status |-> status, body |-> body]]

\* a request reaches thread t; for a method the route does not answer to the
\* router raises 405 and no view function runs
Arrive(t, req) ==
    /\ script = SERVER
    /\ handlers[t].pc = "idle"
    /\ served.requests < MaxRequests
    /\ served' = [served EXCEPT !.requests = @ + 1]
    /\ handlers' = [handlers EXCEPT ![t] =
            IF req.method \in Methods(req.route)
            THEN [Idle EXCEPT !.route = req.route, !.method = req.method,
                              !.pc = IF req.route = "/metric" THEN "value" ELSE "check"]
            ELSE [Idle EXCEPT !.route = req.route, !.method = req.method,
                              !.pc = "return", !.status = 405]]
    /\ UNCHANGED <<untouched, global_metric>>

\* a request reaches thread t while no other request is being handled
ArriveAlone(t, req) ==
    /\ Quiescent
    /\ Arrive(t, req)

\* the description abort() is given
Refusal(route) ==
    IF route = "/increment"
    THEN Diag("Metric cannot be incremented beyond ", IntToChars(MAX_METRIC))
    ELSE Diag("Metric cannot be decremented below ", IntToChars(MIN_METRIC))

\* the bounds check with the comparisons exclusive: > and <
CheckExclusive(t) ==
    /\ handlers[t].pc = "check"
    /\ LET refuse == IF handlers[t].route = "/increment"
                     THEN global_metric > MAX_METRIC
                     ELSE global_metric < MIN_METRIC
       IN  handlers' = [handlers EXCEPT ![t] =
                IF refuse
                THEN [@ EXCEPT !.pc = "return", !.status = 400,
                               !.body = Refusal(handlers[t].route)]
                ELSE [@ EXCEPT !.pc = "load"]]
    /\ UNCHANGED <<untouched, global_metric, served>>

\* abort(400, ...) raises on the spot; the response goes out in Return
\* if global_metric >= MAX_METRIC: abort(400, ...)   (increment)
\* if global_metric <= MIN_METRIC: abort(400, ...)   (decrement)
Check(t) ==
    /\ handlers[t].pc = "check"
    /\ LET refuse == IF handlers[t].route = "/increment"
                     THEN global_metric >= MAX_METRIC
                     ELSE global_metric <= MIN_METRIC
       IN  handlers' = [handlers EXCEPT ![t] =
                IF refuse
                THEN [@ EXCEPT !.pc = "return", !.status = 400,
                               !.body = Refusal(handlers[t].route)]
                ELSE [@ EXCEPT !.pc = "load"]]
    /\ UNCHANGED <<untouched, global_metric, served>>

\* global_metric += 1 / -= 1, first half: the global is loaded
Load(t) ==
    /\ handlers[t].pc = "load"
    /\ handlers' = [handlers EXCEPT ![t].tmp = global_metric, ![t].pc = "store"]
    /\ UNCHANGED <<untouched, global_metric, served>>

\* global_metric += 1 / -= 1, second half: the result is stored
Store(t) ==
    /\ handlers[t].pc = "store"
    /\ global_metric' = IF handlers[t].route = "/increment"
                        THEN handlers[t].tmp + 1
                        ELSE handlers[t].tmp - 1
    /\ handlers' = [handlers EXCEPT ![t].pc = "value"]
    /\ UNCHANGED <<untouched, served>>

\* "value": global_metric, the first read of the response
ReadValue(t) ==
    /\ handlers[t].pc = "value"
    /\ handlers' = [handlers EXCEPT ![t].body = JInt(global_metric),
                                    ![t].pc = "available"]
    /\ UNCHANGED <<untouched, global_metric, served>>

\* "available": MAX_METRIC - global_metric, the second read, and json.dumps
\* of the dict: the text the view is about to return
Respond(t) ==
    /\ handlers[t].pc = "available"
    /\ handlers' = [handlers EXCEPT
            ![t].body = Body(handlers[t].body.n, MAX_METRIC - global_metric),
            ![t].status = 200,
            ![t].pc = "return"]
    /\ UNCHANGED <<untouched, global_metric, served>>

\* the view returns or abort() raises: the response goes out and the thread
\* is free again
Return(t) ==
    /\ handlers[t].pc = "return"
    /\ served' = Reply(t, handlers[t].status, handlers[t].body)
    /\ handlers' = [handlers EXCEPT ![t] = Idle]
    /\ UNCHANGED <<untouched, global_metric>>

Handle(t) ==
    \/ Check(t)
    \/ Load(t)
    \/ Store(t)
    \/ ReadValue(t)
    \/ Respond(t)
    \/ Return(t)

NextSerial ==
    \/ \E t \in Threads, req \in Requests : ArriveAlone(t, req)
    \/ \E t \in Threads : Handle(t)

SpecSerial == InitServer /\ [][NextSerial]_vars

NextConcurrent ==
    \/ \E t \in Threads, req \in Requests : Arrive(t, req)
    \/ \E t \in Threads : Handle(t)

SpecConcurrent == InitServer /\ [][NextConcurrent]_vars
(***************************************************************************)
(* What the claims speak of.                                               *)
(***************************************************************************)
Done == pc = "done"

\* the document on stdin, or the exception json.loads raises on it
Doc == Loads(stdin)

\* the single document written to stdout, parsed back
Emitted == Loads(stdout[1])

RECURSIVE SumInts(_)
SumInts(s) == IF s = <<>> THEN 0 ELSE s[1] + SumInts(Tail(s))

\* the 'available' count of one metric entry of the hysteresis evaluator
AvailableOf(entry) == PyInt(Sub(Loads(Sub(entry, "value")), "available"))

\* the metric entries of the document all parse
EntriesParse(doc) ==
    /\ ~IsExc(doc)
    /\ Sub(doc, "metrics").t = "list"
    /\ \A i \in 1..Len(doc.f.metrics.items) : ~IsExc(AvailableOf(doc.f.metrics.items[i]))

TotalAvailable(doc) ==
    SumInts([i \in 1..Len(doc.f.metrics.items) |-> AvailableOf(doc.f.metrics.items[i]).n])

\* the resource's status.replicas as the document reports it: the field
\* itself, read without the evaluator's code
ReportedReplicas(doc) ==
    IF /\ doc.t = "obj" /\ "resource" \in DOMAIN doc.f
       /\ doc.f.resource.t = "obj" /\ "status" \in DOMAIN doc.f.resource.f
       /\ doc.f.resource.f.status.t = "obj"
       /\ "replicas" \in DOMAIN doc.f.resource.f.status.f
    THEN doc.f.resource.f.status.f.replicas
    ELSE Exc("KeyError")

\* the document carries no replica count: resource, status or replicas is absent
NoReportedReplicas(doc) ==
    \/ "resource" \notin DOMAIN doc.f
    \/ /\ doc.f.resource.t = "obj"
       /\ \/ "status" \notin DOMAIN doc.f.resource.f
          \/ /\ doc.f.resource.f.status.t = "obj"
             /\ "replicas" \notin DOMAIN doc.f.resource.f.status.f

\* the hysteresis band as the specification words it
Band(total, baseline) ==
    IF total > 5 THEN baseline - 1
    ELSE IF total <= 0 THEN baseline + 1
    ELSE baseline

\* C1: hysteresis evaluator: on every input whose metric entries all parse and
\* whose resource reports status.replicas, the process ends with status 0 having
\* written {"targetReplicas": t}, where t is baseline - 1 when totalAvailable > 5,
\* baseline + 1 when totalAvailable <= 0 and baseline otherwise (so 5 leaves it
\* unchanged, 0 increments it), and t never differs from baseline by more than 1.
C1_HysteresisBand ==
    (script = HYST /\ Done /\ EntriesParse(Doc) /\ ~IsExc(PyInt(ReportedReplicas(Doc))))
        => LET baseline == PyInt(ReportedReplicas(Doc)).n
               total == TotalAvailable(Doc)
               t == Band(total, baseline)
           IN  /\ exitStatus = 0
               /\ stdout = <<Dumps(JObj([targetReplicas |-> JInt(t)]))>>
               /\ total = 5 => t = baseline
               /\ total = 0 => t = baseline + 1
               /\ Abs(target_replica_count.n - baseline) <= 1

\* the boundary of C1 was exercised: a run that summed exactly 5 and wrote its result
C1_Witness ==
    /\ script = HYST /\ Done /\ exitStatus = 0
    /\ EntriesParse(Doc) /\ TotalAvailable(Doc) = 5
    /\ Len(Doc.f.metrics.items) = 2
    /\ stdout = <<Dumps(JObj([targetReplicas |-> JInt(3)]))>>

\* stdin is not a JSON document, for a script that reads stdin
MalformedStdin == script # TWEET /\ IsExc(Doc)

\* an extraction collector asked to average over zero replicas
ZeroReplicaAverage ==
    /\ script \in Extractors
    /\ CurrentReplicasOf(Doc) = JInt(0)
    /\ ~IsExc(Items(PodMetricsInfoOf(Doc)))
    /\ \A i \in 1..Len(Items(PodMetricsInfoOf(Doc)).items) :
            Sub(Items(PodMetricsInfoOf(Doc)).items[i], "Value").t = "int"

\* a key the script reads is absent from the document
MissingKey ==
    \/ script = HYST /\ ~IsExc(Doc) /\ Doc.t = "obj" /\ "metrics" \notin DOMAIN Doc.f
    \/ script = LABEL /\ ~IsExc(Doc) /\ Doc.t = "obj" /\ "resource" \notin DOMAIN Doc.f
    \/ script \in Extractors /\ ~IsExc(Doc) /\ Doc.t = "obj"
          /\ "kubernetesMetrics" \notin DOMAIN Doc.f
    \/ script \in Probes /\ ~IsExc(Doc) /\ Doc.t = "obj" /\ ProbeIp(script, Doc) = Exc("KeyError")

\* a value the script converts to a number is no number
NonNumericValue ==
    \/ script = MULT /\ PyInt(Sub(At(Sub(Sub(Doc, "resourceMetrics"), "metrics"), 0), "value"))
                            = Exc("ValueError")
    \/ script = HYST /\ ~IsExc(Doc) /\ Sub(Doc, "metrics").t = "list"
          /\ \E i \in 1..Len(Doc.f.metrics.items) :
                AvailableOf(Doc.f.metrics.items[i]).t = "exc"

\* the invocation failed: one of the failures above, or any exception raised,
\* any diagnostic written, any exit status other than 0
Failed ==
    \/ MalformedStdin \/ ZeroReplicaAverage \/ MissingKey \/ NonNumericValue
    \/ exc # NoExc \/ stderr # <<>> \/ exitStatus # 0

\* C2: every script, every input: a failed invocation ends with exit status 1,
\* a non-empty stderr and nothing on stdout; exit status 0 occurs only after the
\* result was written to stdout; and stdout is written only by the last step
\* that can fail (once stdout holds anything the process can only return 0).
C2_FailureBoundary ==
    /\ Done => /\ exitStatus \in {0, 1}
               /\ Failed => (exitStatus = 1 /\ stderr # <<>> /\ stdout = <<>>)
               /\ exitStatus = 0 => Len(stdout) = 1
    /\ stdout # <<>> => (pc \in {"return", "done"} /\ exitStatus # 1 /\ exc = NoExc)

\* a failure of each kind C2 names has run to its end
C2_Witness ==
    /\ Done /\ exitStatus = 1 /\ stdout = <<>> /\ stderr # <<>>
    /\ script \in Extractors /\ ZeroReplicaAverage
    /\ exc = Exc("ZeroDivisionError")

\* the pod's address was read from the input: the probe got as far as the request
ProbeReached == script \in Probes /\ ~IsExc(ProbeIp(script, Doc))

HasPrefix(p) == \E i \in 1..Len(stderr) : stderr[i].prefix = p

\* C3: remote-probe collector: when the GET fails at transport level the
\* process ends with status 1 and an empty stdout, and stderr carries the
\* prefix 'HTTP error occurred: ' and not 'Other error occurred: '.
C3_TransportPrefix ==
    (ProbeReached /\ Done /\ IsExc(environ.http))
        => /\ exitStatus = 1
           /\ stdout = <<>>
           /\ HasPrefix("HTTP error occurred: ")
           /\ ~HasPrefix("Other error occurred: ")

Is2xx(code) == 200 <= code /\ code <= 299

\* C4: remote-probe collector: a response with a non-2xx status ends the
\* process with status 1, a diagnostic on stderr and nothing on stdout; the body
\* goes to stdout with status 0 only for a 2xx response.
C4_Non2xxFails ==
    (ProbeReached /\ Done /\ environ.http.t = "response")
        => IF Is2xx(environ.http.status_code)
           THEN exitStatus = 0 /\ stdout = <<environ.http.text>>
           ELSE exitStatus = 1 /\ stderr # <<>> /\ stdout = <<>>

\* C5: every evaluator that succeeds has written one JSON object whose only
\* key is 'targetReplicas' and whose value is an integer.
C5_TargetReplicasKey ==
    (script \in Evaluators /\ Done /\ exitStatus = 0)
        => /\ Len(stdout) = 1
           /\ Emitted.t = "obj"
           /\ DOMAIN Emitted.f = {"targetReplicas"}
           /\ Emitted.f.targetReplicas.t = "int"

\* C6: hysteresis evaluator: whenever the baseline replica count is >= 0 the
\* targetReplicas written to stdout is >= 0.
C6_NonNegativeTarget ==
    (script = HYST /\ Done /\ exitStatus = 0 /\ PyInt(ReportedReplicas(Doc)).n >= 0)
        => Emitted.f.targetReplicas.n >= 0

\* C7 as stated: the baseline is status.replicas when the resource reports it,
\* and when the input carries no replica count the evaluator still succeeds,
\* with the number of metric entries as the baseline.
C7_FallbackToCount ==
    /\ (script = HYST /\ pc = "decide") => target_replica_count = PyInt(ReportedReplicas(Doc))
    /\ (script = HYST /\ Done /\ EntriesParse(Doc) /\ NoReportedReplicas(Doc))
            => /\ exitStatus = 0
               /\ stdout = <<Dumps(JObj([targetReplicas |->
                                JInt(Band(TotalAvailable(Doc), Len(Doc.f.metrics.items)))]))>>

\* C7 amended: the baseline is status.replicas when the resource reports it;
\* when the input carries no replica count (resource, status or replicas is
\* absent) the evaluator fails on the missing key, with exit status 1, a
\* traceback on stderr and nothing on stdout: no fallback exists.
C7_Baseline ==
    /\ (script = HYST /\ pc = "decide") => target_replica_count = PyInt(ReportedReplicas(Doc))
    /\ (script = HYST /\ Done /\ EntriesParse(Doc) /\ NoReportedReplicas(Doc))
            => /\ exitStatus = 1
               /\ stdout = <<>>
               /\ stderr = <<Traceback("KeyError")>>

\* an input with metric entries that parse and no replica count ran to its end
C7_Witness ==
    /\ script = HYST /\ Done /\ EntriesParse(Doc) /\ NoReportedReplicas(Doc)
    /\ Len(Doc.f.metrics.items) = 2
    /\ total_available = 5
    /\ exitStatus = 1

\* the extraction input is valid: a positive integer replica count and an
\* integer Value in every entry of pod_metrics_info
ValidCpu(doc) ==
    /\ CurrentReplicasOf(doc).t = "int"
    /\ CurrentReplicasOf(doc).n > 0
    /\ PodMetricsInfoOf(doc).t = "obj"
    /\ \A k \in DOMAIN PodMetricsInfoOf(doc).f : Sub(PodMetricsInfoOf(doc).f[k], "Value").t = "int"

RECURSIVE SumOver(_, _)
SumOver(f, K) ==
    IF K = {} THEN 0
    ELSE LET k == CHOOSE x \in K : TRUE IN f[k].f.Value.n + SumOver(f, K \ {k})

\* the sum of the Value fields of all entries of pod_metrics_info
SumValues(doc) == SumOver(PodMetricsInfoOf(doc).f, DOMAIN PodMetricsInfoOf(doc).f)

\* C8: extraction collector: on every valid input with current_replicas > 0
\* the output's average_utilization is the sum of the entries' Value fields
\* divided by the request's current_replicas, as a float, whatever the number of
\* entries, and current_replicas is echoed unchanged (values=[4] over 1 replica
\* gives 4.0).
C8_AverageOverReplicas ==
    (script \in Extractors /\ Done /\ ValidCpu(Doc))
        => LET cr == CurrentReplicasOf(Doc).n
               sum == SumValues(Doc)
           IN  /\ exitStatus = 0
               /\ stdout = <<Dumps(JObj([current_replicas |-> JInt(cr),
                                         average_utilization |-> Reduced(sum, cr)]))>>
               /\ (sum = 4 /\ cr = 1) => Emitted.f.average_utilization = JFloat(4, 1)

\* one sample of 4 averaged over 3 replicas: fewer entries than replicas
C8_Witness ==
    /\ script \in Extractors /\ Done /\ ValidCpu(Doc)
    /\ Cardinality(DOMAIN PodMetricsInfoOf(Doc).f) = 1
    /\ CurrentReplicasOf(Doc) = JInt(3)
    /\ Len(stdout) = 1
    /\ Emitted.f.average_utilization = JFloat(4, 3)

\* the value of the first metric handed to the direct-multiplier evaluator
FirstValue == Sub(At(Sub(Sub(Doc, "resourceMetrics"), "metrics"), 0), "value")

\* C9: direct-multiplier evaluator: when the first metric's value, a string,
\* parses as an integer v the process writes {"targetReplicas": 2*v} and ends
\* with status 0 ("3" gives 6); when it does not parse ("abc") stdout stays
\* empty, stderr carries 'Invalid metric value' and the status is 1.
C9_DoubleOrInvalid ==
    (script = MULT /\ Done /\ IsStr(FirstValue))
        => /\ IF ~IsExc(PyInt(FirstValue))
              THEN /\ exitStatus = 0
                   /\ stdout = <<Dumps(JObj([targetReplicas |-> JInt(2 * PyInt(FirstValue).n)]))>>
                   /\ stderr = <<>>
              ELSE /\ exitStatus = 1
                   /\ stdout = <<>>
                   /\ stderr = <<Diag("Invalid metric value: ", "ValueError")>>
           /\ FirstValue = JStr(<<"3">>) => Emitted.f.targetReplicas = JInt(6)
           /\ FirstValue = Abc => exitStatus = 1

\* the value "3" was doubled to 6
C9_Witness ==
    /\ script = MULT /\ Done /\ exitStatus = 0
    /\ FirstValue = JStr(<<"3">>)
    /\ stdout = <<Dumps(JObj([targetReplicas |-> JInt(6)]))>>

\* the nested JSON value of a ratio entry has integer sub-fields up and down
IntegerThumbs(entry) ==
    /\ Sub(Loads(Sub(entry, "value")), "up").t = "int"
    /\ Sub(Loads(Sub(entry, "value")), "down").t = "int"

ThumbsUp(entry) == Loads(Sub(entry, "value")).f.up.n

ThumbsDown(entry) == Loads(Sub(entry, "value")).f.down.n

\* C10: ratio evaluator: with exactly one metric whose nested value has
\* integer up and down, the one replica target written is up - down exactly,
\* negative or zero included (up=3, down=5 gives -2); with any other number of
\* metrics the process ends with status 1, 'Expected 1 metric' on stderr and an
\* empty stdout.
C10_UpMinusDown ==
    (script = RATIO /\ Done /\ Doc.t = "list")
        => IF Len(Doc.items) = 1
           THEN IntegerThumbs(Doc.items[1])
                    => /\ exitStatus = 0
                       /\ Len(stdout) = 1
                       /\ Emitted.t = "obj"
                       /\ Cardinality(DOMAIN Emitted.f) = 1
                       /\ \A k \in DOMAIN Emitted.f :
                            Emitted.f[k] = JInt(ThumbsUp(Doc.items[1]) - ThumbsDown(Doc.items[1]))
                       /\ (ThumbsUp(Doc.items[1]) = 3 /\ ThumbsDown(Doc.items[1]) = 5)
                            => \A k \in DOMAIN Emitted.f : Emitted.f[k] = JInt(0 - 2)
           ELSE /\ exitStatus = 1
                /\ stderr = <<Diag("Expected 1 metric", "")>>
                /\ stdout = <<>>

\* up=3, down=5 was evaluated and -2 written
C10_Witness ==
    /\ script = RATIO /\ Done /\ exitStatus = 0 /\ Doc.t = "list"
    /\ Len(Doc.items) = 1 /\ IntegerThumbs(Doc.items[1])
    /\ ThumbsUp(Doc.items[1]) = 3 /\ ThumbsDown(Doc.items[1]) = 5
    /\ replicas = JInt(0 - 2)
    /\ Len(stdout) = 1

\* the labels of the resource, read field by field from the document
LabelsField(doc) ==
    IF /\ doc.t = "obj" /\ "resource" \in DOMAIN doc.f
       /\ doc.f.resource.t = "obj" /\ "metadata" \in DOMAIN doc.f.resource.f
       /\ doc.f.resource.f.metadata.t = "obj"
       /\ "labels" \in DOMAIN doc.f.resource.f.metadata.f
    THEN doc.f.resource.f.metadata.f.labels
    ELSE Exc("KeyError")

\* C11: label collector: when the resource's labels (a map of strings) hold a
\* 'numPods' key, its value is written verbatim to stdout, the exit status is 0
\* and stderr stays empty; when the key is absent nothing is written to stdout,
\* stderr holds "No 'numPods' label on resource being managed" and the exit
\* status is 1.
C11_NumPodsLabel ==
    (script = LABEL /\ Done /\ LabelsField(Doc).t = "obj")
        => LET labels == LabelsField(Doc).f
           IN  IF "numPods" \in DOMAIN labels
               THEN IsStr(labels.numPods)
                        => /\ exitStatus = 0
                           /\ stdout = <<labels.numPods>>
                           /\ stderr = <<>>
               ELSE /\ exitStatus = 1
                    /\ stdout = <<>>
                    /\ stderr = <<Diag("No 'numPods' label on resource being managed", "")>>

\* a resource with labels, none of them numPods, was refused
C11_Witness ==
    /\ script = LABEL /\ Done
    /\ LabelsField(Doc).t = "obj"
    /\ DOMAIN LabelsField(Doc).f = {"app"}
    /\ exitStatus = 1
    /\ stderr # <<>>

\* C15: legacy evaluator: target_replica_count is never bound before it is
\* read, so every run ends in failure with exit status 1 and nothing is ever
\* written to stdout; a run whose metrics all parse fails on that read.
C15_LegacyAlwaysFails ==
    script = LEGACY
        => /\ target_replica_count = Unbound
           /\ stdout = <<>>
           /\ Done => /\ exitStatus = 1
                      /\ stderr # <<>>
                      /\ (Doc.t = "list" /\ idx = Len(Doc.items))
                             => exc = Exc("UnboundLocalError")

\* a well-formed list of metrics was summed and the run failed on the read
C15_Witness ==
    /\ script = LEGACY /\ Done
    /\ Doc.t = "list" /\ Len(Doc.items) > 0
    /\ idx = Len(Doc.items)
    /\ total_available \in 1..5
    /\ exc = Exc("UnboundLocalError")
    /\ exitStatus = 1

\* the runs of the hook that have ended, the one just ended included
EndedRuns == IF Done THEN Append(runs, Ended) ELSE runs

\* the file as run i found it
FileBefore(i) == IF i = 1 THEN NoFile ELSE EndedRuns[i - 1].file

\* C12: post-scale hook: after every run that succeeded the content of
\* /post_scale_data.json parses to the parsed input of that run alone (the
\* run overwrites, never appends), so after any sequence of runs the file
\* holds the most recent successful one; a run that fails, in particular one
\* whose input does not parse, leaves the file as it found it; and the hook
\* writes nothing to stdout.
C12_LastScaleOnly ==
    script = HOOK
        => /\ stdout = <<>>
           /\ \A i \in 1..Len(EndedRuns) :
                LET run == EndedRuns[i]
                IN  /\ run.exitStatus = 0 => FileParse(run.file) = Loads(run.stdin)
                    /\ run.exitStatus # 0 => run.file = FileBefore(i)
                    /\ IsExc(Loads(run.stdin))
                           => run.exitStatus = 1 /\ run.file = FileBefore(i)

\* a second scale was recorded over the first
C12_Witness ==
    /\ script = HOOK /\ Done
    /\ Len(runs) = 1
    /\ runs[1].exitStatus = 0
    /\ FileParse(runs[1].file) = JInt(3)
    /\ exitStatus = 0
    /\ FileParse(file) = JInt(4)

\* the text reports value v and, as available, what is left up to MAX_METRIC
Reports(text, v) ==
    LET d == Loads(text)
    IN  /\ ~IsExc(d) /\ d.t = "obj"
        /\ d.f.value = JInt(v)
        /\ d.f.available = JInt(MAX_METRIC - v)
        /\ d.f.available.n \in 0..5
        /\ d.f.min = JInt(0) /\ d.f.max = JInt(5)

\* the updates that were answered with 200 add up to global_metric
NoUpdateLost == global_metric = 0 + served.increments - served.decrements

\* C13: demo server, one request at a time, from global_metric = 0: always
\* 0 <= global_metric <= 5; a handler gets past its check only below 5
\* (/increment) or above 0 (/decrement), otherwise the answer is 400 and
\* global_metric is as it was; between requests global_metric is the number of
\* accepted increments minus accepted decrements, so /metric and refused
\* requests never change it; and every 200 response reports the value after
\* the update with available = 5 - value, within 0..5.
C13_SerialWithinBounds ==
    script = SERVER
        => /\ global_metric \in 0..5
           /\ \A t \in Threads :
                handlers[t].pc \in {"load", "store"}
                    => IF handlers[t].route = "/increment"
                       THEN global_metric < 5
                       ELSE global_metric > 0
           /\ Quiescent => NoUpdateLost
           /\ (Quiescent /\ served.requests > 0)
                => LET r == served.last
                   IN  CASE r.method \notin Methods(r.route) -> r.status = 405
                         [] r.status = 200 -> Reports(r.body, global_metric)
                         [] r.route = "/increment" ->
                                r.status = 400 /\ global_metric = 5
                         [] r.route = "/decrement" ->
                                r.status = 400 /\ global_metric = 0
                         [] OTHER -> FALSE

\* the sixth request, an increment at 5, was refused after five were accepted
C13_Witness ==
    /\ script = SERVER /\ Quiescent
    /\ served.requests = 6
    /\ served.increments = 5
    /\ served.last.route = "/increment"
    /\ served.last.status = 400
    /\ global_metric = 5

\* C14: demo server, handlers interleaved with the bounds check and the
\* update as separate steps: global_metric stays within [MIN_METRIC,
\* MAX_METRIC], and once every handler has answered it equals the accepted
\* increments minus the accepted decrements.
C14_SafeWhenInterleaved ==
    script = SERVER
        => /\ global_metric \in MIN_METRIC..MAX_METRIC
           /\ Quiescent => NoUpdateLost

====
